---- MODULE Spec2Model ----
(***************************************************************************)
(* A model of pprofetheus' cpuProfileCollector (src/pprofetheus.go): the   *)
(* Start/Stop state machine, the Collect (scrape) routine with its pause,  *)
(* drain, parse, resolve, aggregate, publish and resume steps, and the     *)
(* mapLocations resolver.  Goroutines are the processes of Procs; each     *)
(* statement that touches shared state is one step.                        *)
(*                                                                         *)
(* Counter values are float64 milliseconds in the code.  They are kept     *)
(* here as exact fixed-point numbers [ms, ns] (whole milliseconds and the  *)
(* remaining millionths), so float64 rounding is not modelled.  The samples *)
(* of the runtime have non-negative values and the symbols of the          *)
(* executable do not wrap around the address space.                        *)
(***************************************************************************)
EXTENDS Integers, Sequences, FiniteSets, TLC

VARIABLES
    mutex,        \* sync.Mutex embedded in the collector: Free or the holder
    pc,           \* per goroutine: the statement it is about to execute
    running,      \* c.running
    rate,         \* the runtime's CPU profile rate (runtime.SetCPUProfileRate)
    started,      \* c.started
    stopped,      \* c.stopped
    timeUsed,     \* c.timeUsed: function name -> milliseconds
    timeUsedCum,  \* c.timeUsedCum: function name -> milliseconds
    symbols,      \* c.symbols
    buffer,       \* the runtime's profile buffer: samples not yet drained
    allData,      \* Collect's local allData, per goroutine
    prof,         \* Collect's local p (the parsed profile), per goroutine
    locations,    \* Collect's local locations (ID -> name), per goroutine
    idx,          \* Collect's position in range p.Sample, per goroutine
    ch,           \* what a Collect has sent on its channel, per goroutine
    aborted,      \* the process has terminated after an unrecovered panic
    produced,     \* number of samples the runtime has produced so far
    hist,         \* Start/Stop calls in the order they took the lock, each with
                  \* whether it found the collector in the other state
    pre,          \* per goroutine: the state its current call found
    resLocs,      \* SpecResolve: the locations handed to mapLocations
    resOut        \* SpecResolve: the map mapLocations returned

vars == <<mutex, pc, running, rate, started, stopped, timeUsed, timeUsedCum,
          symbols, buffer, allData, prof, locations, idx, ch, aborted,
          produced, hist, pre, resLocs, resOut>>

----
\* Program constants.
cpuProfileRate == 100
nanoToMilliDivisor == 1000000

\* Bounds of the model.
NumProcs == 2
MaxCalls == 3
MaxSamples == 2
MaxAddr == 2
MaxSize == 1
MaxSyms == 2
MaxLocs == 2

Procs == 1..NumProcs
Free == 0
Unknown == ""

----
\* Milliseconds as exact fixed point.
Zero == [ms |-> 0, ns |-> 0]

\* float64(v) / nanoToMilliDivisor
ToMs(v) == [ms |-> v \div nanoToMilliDivisor, ns |-> v % nanoToMilliDivisor]

\* float64 addition inside Counter.Add
AddMs(a, b) ==
    LET n == a.ns + b.ns
    IN  [ms |-> a.ms + b.ms + (n \div nanoToMilliDivisor),
         ns |-> n % nanoToMilliDivisor]

\* Set instead of Add.
AddOverwrite(vec, name, amt) == (name :> amt) @@ vec

\* vec.WithLabelValues(name).Add(amt): the child counter is created at zero on
\* first use.
Add(vec, name, amt) ==
    IF name \in DOMAIN vec
    THEN [vec EXCEPT ![name] = AddMs(@, amt)]
    ELSE vec @@ (name :> AddMs(Zero, amt))

----
\* The resolver.

\* The range with its upper bound excluded.
InRangeExclusive(addr, s) == addr >= s.Addr /\ addr < s.Addr + s.Size

\* l.Address >= s.Addr && l.Address <= s.Addr+uint64(s.Size)
InRange(addr, s) == addr >= s.Addr /\ addr <= s.Addr + s.Size

\* The inner loop of mapLocations: the index of the first symbol, in table
\* order from i on, whose range holds addr, or 0 when the loop runs out.
RECURSIVE FirstSym(_, _, _)
FirstSym(addr, syms, i) ==
    IF i > Len(syms) THEN 0
    ELSE IF InRange(addr, syms[i]) THEN i
    ELSE FirstSym(addr, syms, i + 1)

\* mapLocations: result[l.ID] = s.Name for the locations that match a symbol;
\* a later location with the same ID overwrites an earlier one.
RECURSIVE mapLocations(_, _)
mapLocations(locs, syms) ==
    IF locs = <<>> THEN <<>>
    ELSE LET n    == Len(locs)
             l    == locs[n]
             rest == mapLocations(SubSeq(locs, 1, n - 1), syms)
             i    == FirstSym(l.Address, syms, 1)
         IN  IF i = 0 THEN rest
             ELSE (l.ID :> syms[i].Name) @@ rest

\* A location without a name read as one of the first function.
LookupAsFirst(m, id) == IF id \in DOMAIN m THEN m[id] ELSE "f"

\* locations[id] on a Go map: the zero value "" when the key is absent.
Lookup(m, id) == IF id \in DOMAIN m THEN m[id] ELSE Unknown

----
\* The profile decoder (internal/pprof/profile), as far as Collect uses it.

\* The addresses of all frames of all samples, in order.
RECURSIVE Frames(_)
Frames(data) ==
    IF data = <<>> THEN <<>> ELSE Head(data).Location \o Frames(Tail(data))

\* s without the repetitions of an element.
RECURSIVE Dedup(_)
Dedup(s) ==
    IF s = <<>> THEN <<>>
    ELSE LET r == Dedup(SubSeq(s, 1, Len(s) - 1))
             x == s[Len(s)]
         IN  IF \E i \in 1..Len(r) : r[i] = x THEN r ELSE Append(r, x)

\* profile.Parse on success: one Location per distinct address, numbered from
\* 1, and the samples with their frames replaced by these Locations.
Parse(data) ==
    LET u == Dedup(Frames(data))
        loc(a) == [ID |-> CHOOSE i \in 1..Len(u) : u[i] = a, Address |-> a]
    IN  [Location |-> [i \in 1..Len(u) |-> [ID |-> i, Address |-> u[i]]],
         Sample   |-> [k \in 1..Len(data) |->
                         [Location |-> [j \in 1..Len(data[k].Location) |->
                                          loc(data[k].Location[j])],
                          Value    |-> data[k].Value]]]

NoProfile == [Location |-> <<>>, Sample |-> <<>>]

----
\* What the runtime can put into its buffer: a sample is a stack of
\* addresses, leaf first, and its values.  Under SymbolTables address 1 is in
\* f only, 2 in f and in g, 3 in g only and 4 in no symbol.
SampleSet ==
    { [Location |-> <<>>,     Value |-> <<1, 1500000>>],
      [Location |-> <<1>>,    Value |-> <<1>>],
      [Location |-> <<4>>,    Value |-> <<1, 1500000>>],
      [Location |-> <<1, 1>>, Value |-> <<30, 300000000>>],
      [Location |-> <<2, 3>>, Value |-> <<1, 1500000>>] }

\* The symbol tables the collector may have been constructed with.
SymbolTables ==
    { << [Name |-> "f", Addr |-> 1, Size |-> 1],
         [Name |-> "g", Addr |-> 2, Size |-> 1] >> }

----
\* The state a call found when it took the lock; a Collect notes the buffer
\* again when it has read c.running, which is when it pauses the sampling.
Snapshot(op) ==
    [op |-> op, running |-> running, rate |-> rate, started |-> started,
     stopped |-> stopped, timeUsed |-> timeUsed, timeUsedCum |-> timeUsedCum,
     buf |-> buffer]

NoPre ==
    [op |-> "none", running |-> FALSE, rate |-> 0, started |-> 0,
     stopped |-> 0, timeUsed |-> <<>>, timeUsedCum |-> <<>>, buf |-> <<>>]

NoMetrics ==
    [sent |-> FALSE, timeUsed |-> <<>>, timeUsedCum |-> <<>>,
     started |-> 0, stopped |-> 0]

\* The calls of op in hist, and those of them that found the other state.
Calls(op) == {i \in 1..Len(hist) : hist[i].op = op}

Moves(op) == {i \in Calls(op) : hist[i].moved}

----
\* sync.Mutex
\* A Lock that does not wait for the holder.
LockNoWait(p) == mutex' = p

Lock(p) == mutex = Free /\ mutex' = p

Unlock(p) == mutex' = Free

Init ==
    /\ mutex = Free
    /\ pc = [p \in Procs |-> "idle"]
    /\ running = FALSE
    /\ rate = 0
    /\ started = 0
    /\ stopped = 0
    /\ timeUsed = <<>>
    /\ timeUsedCum = <<>>
    /\ symbols \in SymbolTables
    /\ buffer = <<>>
    /\ allData = [p \in Procs |-> <<>>]
    /\ prof = [p \in Procs |-> NoProfile]
    /\ locations = [p \in Procs |-> <<>>]
    /\ idx = [p \in Procs |-> 0]
    /\ ch = [p \in Procs |-> NoMetrics]
    /\ aborted = FALSE
    /\ produced = 0
    /\ hist = <<>>
    /\ pre = [p \in Procs |-> NoPre]
    /\ resLocs = <<>>
    /\ resOut = <<>>

collectorVars == <<running, started, stopped, timeUsed, timeUsedCum, symbols>>
localVars == <<allData, prof, locations, idx, ch>>
resVars == <<resLocs, resOut>>

----
\* Start()

StartLock(p) ==
    /\ ~aborted /\ pc[p] = "idle" /\ Len(hist) < MaxCalls
    /\ Lock(p)
    /\ pc' = [pc EXCEPT ![p] = "Start_check"]
    /\ hist' = Append(hist, [op |-> "Start", moved |-> ~running])
    /\ pre' = [pre EXCEPT ![p] = Snapshot("Start")]
    /\ UNCHANGED <<collectorVars, rate, buffer, localVars, aborted, produced, resVars>>

\* Start without its early return.
StartCheckAlways(p) ==
    /\ ~aborted /\ pc[p] = "Start_check"
    /\ running' = TRUE
    /\ pc' = [pc EXCEPT ![p] = "Start_rate"]
    /\ UNCHANGED <<mutex, started, stopped, timeUsed, timeUsedCum, symbols, rate,
                   buffer, localVars, aborted, produced, hist, pre, resVars>>

StartCheck(p) ==
    /\ ~aborted /\ pc[p] = "Start_check"
    /\ IF running
       THEN /\ pc' = [pc EXCEPT ![p] = "Start_unlock"]
            /\ UNCHANGED running
       ELSE /\ running' = TRUE
            /\ pc' = [pc EXCEPT ![p] = "Start_rate"]
    /\ UNCHANGED <<mutex, started, stopped, timeUsed, timeUsedCum, symbols, rate,
                   buffer, localVars, aborted, produced, hist, pre, resVars>>

StartRate(p) ==
    /\ ~aborted /\ pc[p] = "Start_rate"
    /\ rate' = cpuProfileRate
    /\ pc' = [pc EXCEPT ![p] = "Start_inc"]
    /\ UNCHANGED <<mutex, collectorVars, buffer, localVars, aborted, produced,
                   hist, pre, resVars>>

StartInc(p) ==
    /\ ~aborted /\ pc[p] = "Start_inc"
    /\ started' = started + 1
    /\ pc' = [pc EXCEPT ![p] = "Start_unlock"]
    /\ UNCHANGED <<mutex, running, stopped, timeUsed, timeUsedCum, symbols, rate,
                   buffer, localVars, aborted, produced, hist, pre, resVars>>

StartUnlock(p) ==
    /\ ~aborted /\ pc[p] = "Start_unlock"
    /\ Unlock(p)
    /\ pc' = [pc EXCEPT ![p] = "idle"]
    /\ pre' = [pre EXCEPT ![p] = NoPre]
    /\ UNCHANGED <<collectorVars, rate, buffer, localVars, aborted, produced,
                   hist, resVars>>

Start(p) ==
    \/ StartLock(p)
    \/ StartCheck(p)
    \/ StartRate(p)
    \/ StartInc(p)
    \/ StartUnlock(p)

----
\* Stop()

StopLock(p) ==
    /\ ~aborted /\ pc[p] = "idle" /\ Len(hist) < MaxCalls
    /\ Lock(p)
    /\ pc' = [pc EXCEPT ![p] = "Stop_check"]
    /\ hist' = Append(hist, [op |-> "Stop", moved |-> running])
    /\ pre' = [pre EXCEPT ![p] = Snapshot("Stop")]
    /\ UNCHANGED <<collectorVars, rate, buffer, localVars, aborted, produced, resVars>>

\* Stop without its early return.
StopCheckAlways(p) ==
    /\ ~aborted /\ pc[p] = "Stop_check"
    /\ running' = FALSE
    /\ pc' = [pc EXCEPT ![p] = "Stop_rate"]
    /\ UNCHANGED <<mutex, started, stopped, timeUsed, timeUsedCum, symbols, rate,
                   buffer, localVars, aborted, produced, hist, pre, resVars>>

StopCheck(p) ==
    /\ ~aborted /\ pc[p] = "Stop_check"
    /\ IF ~running
       THEN /\ pc' = [pc EXCEPT ![p] = "Stop_unlock"]
            /\ UNCHANGED running
       ELSE /\ running' = FALSE
            /\ pc' = [pc EXCEPT ![p] = "Stop_rate"]
    /\ UNCHANGED <<mutex, started, stopped, timeUsed, timeUsedCum, symbols, rate,
                   buffer, localVars, aborted, produced, hist, pre, resVars>>

StopRate(p) ==
    /\ ~aborted /\ pc[p] = "Stop_rate"
    /\ rate' = 0
    /\ pc' = [pc EXCEPT ![p] = "Stop_inc"]
    /\ UNCHANGED <<mutex, collectorVars, buffer, localVars, aborted, produced,
                   hist, pre, resVars>>

\* Stop going on without counting.
StopIncNone(p) ==
    /\ ~aborted /\ pc[p] = "Stop_inc"
    /\ pc' = [pc EXCEPT ![p] = "Stop_unlock"]
    /\ UNCHANGED <<mutex, collectorVars, rate, buffer, localVars, aborted,
                   produced, hist, pre, resVars>>

StopInc(p) ==
    /\ ~aborted /\ pc[p] = "Stop_inc"
    /\ stopped' = stopped + 1
    /\ pc' = [pc EXCEPT ![p] = "Stop_unlock"]
    /\ UNCHANGED <<mutex, running, started, timeUsed, timeUsedCum, symbols, rate,
                   buffer, localVars, aborted, produced, hist, pre, resVars>>

StopUnlock(p) ==
    /\ ~aborted /\ pc[p] = "Stop_unlock"
    /\ Unlock(p)
    /\ pc' = [pc EXCEPT ![p] = "idle"]
    /\ pre' = [pre EXCEPT ![p] = NoPre]
    /\ UNCHANGED <<collectorVars, rate, buffer, localVars, aborted, produced,
                   hist, resVars>>

Stop(p) ==
    \/ StopLock(p)
    \/ StopCheck(p)
    \/ StopRate(p)
    \/ StopInc(p)
    \/ StopUnlock(p)

----
\* Collect(ch)

CollectLock(p) ==
    /\ ~aborted /\ pc[p] = "idle"
    /\ Lock(p)
    /\ pc' = [pc EXCEPT ![p] = "Collect_check"]
    /\ pre' = [pre EXCEPT ![p] = Snapshot("Collect")]
    /\ UNCHANGED <<collectorVars, rate, buffer, localVars, aborted, produced,
                   hist, resVars>>

\* Collect pausing and draining whatever c.running is.
CollectPauseAlways(p) ==
    /\ ~aborted /\ pc[p] = "Collect_check"
    /\ rate' = 0
    /\ allData' = [allData EXCEPT ![p] = <<>>]
    /\ pc' = [pc EXCEPT ![p] = "Collect_drain"]
    /\ pre' = [pre EXCEPT ![p].buf = buffer]
    /\ UNCHANGED <<mutex, collectorVars, buffer, prof, locations, idx, ch,
                   aborted, produced, hist, resVars>>

\* if c.running { runtime.SetCPUProfileRate(0); var allData bytes.Buffer
CollectPause(p) ==
    /\ ~aborted /\ pc[p] = "Collect_check"
    /\ IF running
       THEN /\ rate' = 0
            /\ allData' = [allData EXCEPT ![p] = <<>>]
            /\ pc' = [pc EXCEPT ![p] = "Collect_drain"]
       ELSE /\ pc' = [pc EXCEPT ![p] = "Collect_publish"]
            /\ UNCHANGED <<rate, allData>>
    /\ pre' = [pre EXCEPT ![p].buf = buffer]
    /\ UNCHANGED <<mutex, collectorVars, buffer, prof, locations, idx, ch,
                   aborted, produced, hist, resVars>>

\* One turn of the drain loop: runtime.CPUProfile() hands over the next chunk
\* of the buffer, of whatever size, or nil when nothing is left.
CollectDrain(p) ==
    /\ ~aborted /\ pc[p] = "Collect_drain"
    /\ IF buffer = <<>>
       THEN /\ pc' = [pc EXCEPT ![p] = "Collect_parse"]
            /\ UNCHANGED <<buffer, allData>>
       ELSE \E n \in 1..Len(buffer) :
            /\ allData' = [allData EXCEPT ![p] = @ \o SubSeq(buffer, 1, n)]
            /\ buffer' = SubSeq(buffer, n + 1, Len(buffer))
            /\ UNCHANGED pc
    /\ UNCHANGED <<mutex, collectorVars, rate, prof, locations, idx, ch,
                   aborted, produced, hist, pre, resVars>>

\* p, err := profile.Parse(&allData) with err == nil, then
\* locations := mapLocations(p.Location, c.symbols)
CollectParse(p) ==
    /\ ~aborted /\ pc[p] = "Collect_parse"
    /\ prof' = [prof EXCEPT ![p] = Parse(allData[p])]
    /\ locations' = [locations EXCEPT ![p] = mapLocations(prof'[p].Location, symbols)]
    /\ idx' = [idx EXCEPT ![p] = 1]
    /\ pc' = [pc EXCEPT ![p] = "Collect_aggregate"]
    /\ UNCHANGED <<mutex, collectorVars, rate, buffer, allData, ch, aborted,
                   produced, hist, pre, resVars>>

\* The decode failure noticed only once the samples have been added.
CollectPanicLate(p) ==
    /\ ~aborted /\ pc[p] = "Collect_publish" /\ pre[p].running
    /\ Unlock(p)
    /\ pc' = [pc EXCEPT ![p] = "panicked"]
    /\ pre' = [pre EXCEPT ![p] = NoPre]
    /\ allData' = [allData EXCEPT ![p] = <<>>]
    /\ UNCHANGED <<collectorVars, rate, buffer, prof, locations, idx, ch,
                   aborted, produced, hist, resVars>>

\* p, err := profile.Parse(&allData) with err != nil: panic(err).  The
\* deferred c.Unlock() runs while the goroutine unwinds, and its locals go
\* away.
CollectPanic(p) ==
    /\ ~aborted /\ pc[p] = "Collect_parse"
    /\ Unlock(p)
    /\ pc' = [pc EXCEPT ![p] = "panicked"]
    /\ pre' = [pre EXCEPT ![p] = NoPre]
    /\ allData' = [allData EXCEPT ![p] = <<>>]
    /\ UNCHANGED <<collectorVars, rate, buffer, prof, locations, idx, ch,
                   aborted, produced, hist, resVars>>

\* The sum of the cumulative contributions of one sample: every frame of the
\* stack adds ms to the counter of its function.
RECURSIVE AddFrames(_, _, _, _)
AddFrames(vec, stack, locs, ms) ==
    IF stack = <<>> THEN vec
    ELSE AddFrames(Add(vec, Lookup(locs, Head(stack).ID), ms), Tail(stack), locs, ms)

\* The self time credited to every frame of the stack.
SelfAfterAllFrames(vec, s, locs) ==
    IF Len(s.Location) = 0 \/ Len(s.Value) < 2 THEN vec
    ELSE AddFrames(vec, s.Location, locs, ToMs(s.Value[2]))

\* c.timeUsed after the body of the sample loop has run for s.
SelfAfter(vec, s, locs) ==
    IF Len(s.Location) = 0 \/ Len(s.Value) < 2 THEN vec
    ELSE Add(vec, Lookup(locs, s.Location[1].ID), ToMs(s.Value[2]))

\* The cumulative time credited once per function of the stack.
CumAfterOncePerName(vec, s, locs) ==
    IF Len(s.Location) = 0 \/ Len(s.Value) < 2 THEN vec
    ELSE LET names == {Lookup(locs, s.Location[j].ID) : j \in 1..Len(s.Location)}
             once  == [n \in names |-> ToMs(s.Value[2])]
         IN  [n \in DOMAIN vec \cup names |->
                 IF n \in names
                 THEN AddMs(IF n \in DOMAIN vec THEN vec[n] ELSE Zero, once[n])
                 ELSE vec[n]]

\* The cumulative time credited to the callers only, not to the leaf.
CumAfterCallersOnly(vec, s, locs) ==
    IF Len(s.Location) = 0 \/ Len(s.Value) < 2 THEN vec
    ELSE AddFrames(vec, Tail(s.Location), locs, ToMs(s.Value[2]))

\* c.timeUsedCum after the body of the sample loop has run for s.
CumAfter(vec, s, locs) ==
    IF Len(s.Location) = 0 \/ Len(s.Value) < 2 THEN vec
    ELSE AddFrames(vec, s.Location, locs, ToMs(s.Value[2]))

\* The head of for _, s := range p.Sample: the end of the loop, the continue
\* of a sample without stack or with fewer than 2 values, or the Add to
\* c.timeUsed for the leaf.
CollectAggregate(p) ==
    /\ ~aborted /\ pc[p] = "Collect_aggregate"
    /\ IF idx[p] > Len(prof[p].Sample)
       THEN /\ pc' = [pc EXCEPT ![p] = "Collect_publish"]
            /\ UNCHANGED <<timeUsed, idx>>
       ELSE LET s == prof[p].Sample[idx[p]]
            IN  IF Len(s.Location) = 0 \/ Len(s.Value) < 2
                THEN /\ idx' = [idx EXCEPT ![p] = @ + 1]
                     /\ UNCHANGED <<timeUsed, pc>>
                ELSE /\ timeUsed' = SelfAfter(timeUsed, s, locations[p])
                     /\ pc' = [pc EXCEPT ![p] = "Collect_cum"]
                     /\ UNCHANGED idx
    /\ UNCHANGED <<mutex, running, started, stopped, timeUsedCum, symbols, rate,
                   buffer, allData, prof, locations, ch, aborted, produced,
                   hist, pre, resVars>>

\* for _, l := range s.Location: the Adds to c.timeUsedCum for the frames of
\* the sample, and on to the next sample.
CollectCum(p) ==
    /\ ~aborted /\ pc[p] = "Collect_cum"
    /\ timeUsedCum' = CumAfter(timeUsedCum, prof[p].Sample[idx[p]], locations[p])
    /\ idx' = [idx EXCEPT ![p] = @ + 1]
    /\ pc' = [pc EXCEPT ![p] = "Collect_aggregate"]
    /\ UNCHANGED <<mutex, running, started, stopped, timeUsed, symbols, rate,
                   buffer, allData, prof, locations, ch, aborted, produced,
                   hist, pre, resVars>>

\* c.timeUsed.Collect(ch) ... c.stopped.Collect(ch)
CollectPublish(p) ==
    /\ ~aborted /\ pc[p] = "Collect_publish"
    /\ ch' = [ch EXCEPT ![p] = [sent |-> TRUE, timeUsed |-> timeUsed,
                                timeUsedCum |-> timeUsedCum,
                                started |-> started, stopped |-> stopped]]
    /\ pc' = [pc EXCEPT ![p] = "Collect_resume"]
    /\ UNCHANGED <<mutex, collectorVars, rate, buffer, allData, prof, locations,
                   idx, aborted, produced, hist, pre, resVars>>

\* Collect resuming the sampling the way Start begins it, counter included.
CollectResumeCounted(p) ==
    /\ ~aborted /\ pc[p] = "Collect_resume"
    /\ rate' = IF running THEN cpuProfileRate ELSE rate
    /\ started' = IF running THEN started + 1 ELSE started
    /\ pc' = [pc EXCEPT ![p] = "Collect_unlock"]
    /\ UNCHANGED <<mutex, running, stopped, timeUsed, timeUsedCum, symbols,
                   buffer, localVars, aborted, produced, hist, pre, resVars>>

\* if c.running { runtime.SetCPUProfileRate(cpuProfileRate) }
CollectResume(p) ==
    /\ ~aborted /\ pc[p] = "Collect_resume"
    /\ rate' = IF running THEN cpuProfileRate ELSE rate
    /\ pc' = [pc EXCEPT ![p] = "Collect_unlock"]
    /\ UNCHANGED <<mutex, collectorVars, buffer, localVars, aborted, produced,
                   hist, pre, resVars>>

\* The deferred c.Unlock() of a Collect that returns; its locals and the
\* metrics its caller has read from the channel go away.
CollectUnlock(p) ==
    /\ ~aborted /\ pc[p] = "Collect_unlock"
    /\ Unlock(p)
    /\ pc' = [pc EXCEPT ![p] = "idle"]
    /\ pre' = [pre EXCEPT ![p] = NoPre]
    /\ allData' = [allData EXCEPT ![p] = <<>>]
    /\ prof' = [prof EXCEPT ![p] = NoProfile]
    /\ locations' = [locations EXCEPT ![p] = <<>>]
    /\ idx' = [idx EXCEPT ![p] = 0]
    /\ ch' = [ch EXCEPT ![p] = NoMetrics]
    /\ UNCHANGED <<collectorVars, rate, buffer, aborted, produced, hist, resVars>>

Collect(p) ==
    \/ CollectLock(p)
    \/ CollectPause(p)
    \/ CollectDrain(p)
    \/ CollectParse(p)
    \/ CollectPanic(p)
    \/ CollectAggregate(p)
    \/ CollectCum(p)
    \/ CollectPublish(p)
    \/ CollectResume(p)
    \/ CollectUnlock(p)

----
\* The environment.

\* The runtime's profiler records a sample while the profile rate is not 0.
Sampler ==
    /\ ~aborted /\ rate > 0 /\ produced < MaxSamples
    /\ \E s \in SampleSet : buffer' = Append(buffer, s)
    /\ produced' = produced + 1
    /\ UNCHANGED <<mutex, pc, collectorVars, rate, localVars, aborted, hist,
                   pre, resVars>>

\* Nothing recovers the panic of Collect: the runtime ends the process.
Abort ==
    /\ ~aborted /\ \E p \in Procs : pc[p] = "panicked"
    /\ aborted' = TRUE
    /\ UNCHANGED <<mutex, pc, collectorVars, rate, buffer, localVars, produced,
                   hist, pre, resVars>>

Next ==
    \/ \E p \in Procs : Start(p)
    \/ \E p \in Procs : Stop(p)
    \/ \E p \in Procs : Collect(p)
    \/ Sampler
    \/ Abort

Spec == Init /\ [][Next]_vars

\* The scheduling the claims about completion assume: a goroutine that is
\* inside Start, Stop or Collect keeps running until the call returns or
\* panics, and an unrecovered panic does end the process.  Nothing obliges a
\* goroutine to make a call, nor the profiler to record a sample.
Proceed(p) == pc[p] # "idle" /\ (Start(p) \/ Stop(p) \/ Collect(p))

SpecFair == Spec /\ (\A p \in Procs : WF_vars(Proceed(p))) /\ WF_vars(Abort)

----
\* The resolver on its own: any symbol table of up to MaxSyms symbols, named in
\* table order, with any start addresses and sizes, and any list of up to
\* MaxLocs locations, numbered as the decoder numbers them.
SymbolNames == <<"f", "g", "h", "k">>

AllTables ==
    UNION {{[i \in 1..n |-> [Name |-> SymbolNames[i], Addr |-> a[i], Size |-> z[i]]] :
               a \in [1..n -> 0..MaxAddr], z \in [1..n -> 0..MaxSize]} :
           n \in 0..MaxSyms}

LocLists ==
    UNION {{[i \in 1..n |-> [ID |-> i, Address |-> a[i]]] :
               a \in [1..n -> 0..(MaxAddr + MaxSize)]} : n \in 0..MaxLocs}

InitResolve ==
    /\ mutex = Free
    /\ pc = [p \in Procs |-> "idle"]
    /\ running = FALSE
    /\ rate = 0
    /\ started = 0
    /\ stopped = 0
    /\ timeUsed = <<>>
    /\ timeUsedCum = <<>>
    /\ symbols \in AllTables
    /\ buffer = <<>>
    /\ allData = [p \in Procs |-> <<>>]
    /\ prof = [p \in Procs |-> NoProfile]
    /\ locations = [p \in Procs |-> <<>>]
    /\ idx = [p \in Procs |-> 0]
    /\ ch = [p \in Procs |-> NoMetrics]
    /\ aborted = FALSE
    /\ produced = 0
    /\ hist = <<>>
    /\ pre = [p \in Procs |-> NoPre]
    /\ resLocs = <<>>
    /\ resOut = <<>>

Resolve ==
    /\ resLocs = <<>>
    /\ \E locs \in LocLists :
        /\ resLocs' = locs
        /\ resOut' = mapLocations(locs, symbols)
    /\ UNCHANGED <<mutex, pc, collectorVars, rate, buffer, localVars, aborted,
                   produced, hist, pre>>

NextResolve == Resolve

SpecResolve == InitResolve /\ [][NextResolve]_vars

----
\* Notions the properties below share.

\* p is between taking and releasing the lock.
InCS(p) == pc[p] \notin {"idle", "panicked"}

\* p is in a Collect that found the collector running / stopped.
RunningScrape(p) == pre[p].op = "Collect" /\ pre[p].running

StoppedScrape(p) == pre[p].op = "Collect" /\ ~pre[p].running

\* p's Collect has left its sample loop.
Aggregated(p) == pc[p] \in {"Collect_publish", "Collect_resume", "Collect_unlock"}

\* The value of a counter that may not exist yet.
Val(vec, n) == IF n \in DOMAIN vec THEN vec[n] ELSE Zero

Leq(a, b) == a.ms < b.ms \/ (a.ms = b.ms /\ a.ns <= b.ns)

Ops == [i \in 1..Len(hist) |-> hist[i].op]

\* The function names a counter can be labelled with.
AllNames == {Unknown} \cup {symbols[i].Name : i \in 1..Len(symbols)}

----
\* C1: Start, Stop and Collect are serialized by the one mutex: at most one
\* goroutine is between Lock and Unlock of any of them, and it is the holder
\* of the mutex, so none of them sees or changes running, the rate or the
\* counters while another one is part-way through.
C1_MutualExclusion ==
    /\ \A p, q \in Procs : (InCS(p) /\ InCS(q)) => p = q
    /\ \A p \in Procs : InCS(p) <=> mutex = p

\* A Collect is half-way through its sample loop while the other goroutines
\* are outside.
C1_Witness ==
    \E p \in Procs :
        /\ pc[p] = "Collect_aggregate" /\ idx[p] = 2 /\ Len(prof[p].Sample) = 2
        /\ DOMAIN timeUsed # {}
        /\ \A q \in Procs \ {p} : pc[q] = "idle"

----
\* C2: a Collect that found the collector running releases the lock only
\* after it has, in this order, set the rate to 0, drained the buffer until
\* runtime.CPUProfile() returned nil, aggregated every drained sample, and set
\* the rate back to cpuProfileRate.
C2_ScrapeOrder ==
    [][\A p \in Procs :
        /\ (RunningScrape(p) /\ pc'[p] \in {"Collect_drain", "Collect_parse",
                "Collect_aggregate", "Collect_cum", "Collect_publish"}) => rate' = 0
        /\ (RunningScrape(p) /\ pc'[p] \in {"Collect_parse", "Collect_aggregate",
                "Collect_cum", "Collect_publish", "Collect_resume"}) => buffer' = <<>>
        /\ (RunningScrape(p) /\ mutex = p /\ mutex' # p) =>
              /\ allData[p] = pre[p].buf
              /\ idx[p] = Len(allData[p]) + 1
              /\ rate = cpuProfileRate]_vars

\* The same for the Collects that return: the release of the lock meant is
\* the one at the return of Collect, not the one of the unwinding panic.
C2_ScrapeOrderOnReturn ==
    [][\A p \in Procs :
        /\ (RunningScrape(p) /\ pc'[p] \in {"Collect_drain", "Collect_parse",
                "Collect_aggregate", "Collect_cum", "Collect_publish"}) => rate' = 0
        /\ (RunningScrape(p) /\ pc'[p] \in {"Collect_parse", "Collect_aggregate",
                "Collect_cum", "Collect_publish", "Collect_resume"}) => buffer' = <<>>
        /\ (RunningScrape(p) /\ pc[p] = "Collect_unlock" /\ mutex' # p) =>
              /\ allData[p] = pre[p].buf
              /\ idx[p] = Len(allData[p]) + 1
              /\ rate = cpuProfileRate]_vars

----
\* The reference fold of section 4.3, by function name: the number of times
\* a sample counts for name n in the self-time counter (once, if n is the
\* function of the leaf) and in the cumulative counter (once per frame of n).
Valid(s) == Len(s.Location) > 0 /\ Len(s.Value) >= 2

Weight(kind, s, n, locs) ==
    IF ~Valid(s) THEN 0
    ELSE IF kind = "self"
         THEN (IF Lookup(locs, s.Location[1].ID) = n THEN 1 ELSE 0)
         ELSE Cardinality({j \in 1..Len(s.Location) :
                             Lookup(locs, s.Location[j].ID) = n})

\* The whole milliseconds, and the millionths left over, of the samples'
\* nanoseconds, weighted.
RECURSIVE RefWhole(_, _, _, _)
RefWhole(kind, samples, n, locs) ==
    IF samples = <<>> THEN 0
    ELSE LET s == Head(samples)
             w == Weight(kind, s, n, locs)
         IN  (IF w = 0 THEN 0 ELSE w * (s.Value[2] \div nanoToMilliDivisor))
             + RefWhole(kind, Tail(samples), n, locs)

RECURSIVE RefRest(_, _, _, _)
RefRest(kind, samples, n, locs) ==
    IF samples = <<>> THEN 0
    ELSE LET s == Head(samples)
             w == Weight(kind, s, n, locs)
         IN  (IF w = 0 THEN 0 ELSE w * (s.Value[2] % nanoToMilliDivisor))
             + RefRest(kind, Tail(samples), n, locs)

\* What the samples add to the counter of n, in milliseconds.
RefTime(kind, samples, n, locs) ==
    LET r == RefRest(kind, samples, n, locs)
    IN  [ms |-> RefWhole(kind, samples, n, locs) + (r \div nanoToMilliDivisor),
         ns |-> r % nanoToMilliDivisor]

\* The names the samples create a counter for.
RefNames(kind, samples, locs) ==
    {n \in AllNames : \E k \in 1..Len(samples) : Weight(kind, samples[k], n, locs) > 0}

\* vec is what the fold of samples makes of old.
IsFold(kind, vec, old, samples, locs) ==
    /\ DOMAIN vec = DOMAIN old \cup RefNames(kind, samples, locs)
    /\ \A n \in AllNames :
          Val(vec, n) = AddMs(Val(old, n), RefTime(kind, samples, n, locs))

----
\* C3: a Collect that found the collector running loses no sample and counts
\* none twice: when it releases the lock, every sample that was in the buffer
\* when it paused the sampling has been drained, has been folded into the
\* counters exactly once, and is in the values it has sent on its channel.
C3_NoSampleLost ==
    [][\A p \in Procs :
        (RunningScrape(p) /\ pre[p].buf # <<>> /\ mutex = p /\ mutex' # p) =>
            /\ allData[p] = pre[p].buf
            /\ Len(prof[p].Sample) = Len(pre[p].buf)
            /\ idx[p] = Len(pre[p].buf) + 1
            /\ IsFold("self", timeUsed, pre[p].timeUsed, prof[p].Sample, locations[p])
            /\ IsFold("cum", timeUsedCum, pre[p].timeUsedCum, prof[p].Sample, locations[p])
            /\ ch[p].sent
            /\ ch[p].timeUsed = timeUsed
            /\ ch[p].timeUsedCum = timeUsedCum]_vars

\* The same for the Collects that return.
C3_NoSampleLostOnReturn ==
    [][\A p \in Procs :
        (RunningScrape(p) /\ pre[p].buf # <<>> /\ pc[p] = "Collect_unlock"
            /\ mutex' # p) =>
            /\ allData[p] = pre[p].buf
            /\ Len(prof[p].Sample) = Len(pre[p].buf)
            /\ idx[p] = Len(pre[p].buf) + 1
            /\ IsFold("self", timeUsed, pre[p].timeUsed, prof[p].Sample, locations[p])
            /\ IsFold("cum", timeUsedCum, pre[p].timeUsedCum, prof[p].Sample, locations[p])
            /\ ch[p].sent
            /\ ch[p].timeUsed = timeUsed
            /\ ch[p].timeUsedCum = timeUsedCum]_vars

----
----
\* C5: whenever the lock is free, the rate is cpuProfileRate exactly if
\* running is true, and 0 exactly if running is false.
C5_RateMatchesState ==
    mutex = Free =>
        /\ (rate = cpuProfileRate <=> running)
        /\ (rate = 0 <=> ~running)

\* The same while no Collect has panicked.
C5_RateMatchesStateNoPanic ==
    (mutex = Free /\ \A p \in Procs : pc[p] # "panicked") =>
        /\ (rate = cpuProfileRate <=> running)
        /\ (rate = 0 <=> ~running)

----
\* C6: a Collect that found the collector stopped drains and aggregates
\* nothing: from taking the lock to releasing it the buffer, both time
\* counters and the rate, which is 0, are as it found them, and what it sends
\* are the counters it found.
C6_StoppedScrapeFrame ==
    \A p \in Procs :
        StoppedScrape(p) =>
            /\ buffer = pre[p].buf
            /\ timeUsed = pre[p].timeUsed
            /\ timeUsedCum = pre[p].timeUsedCum
            /\ rate = 0 /\ pre[p].rate = 0
            /\ allData[p] = <<>> /\ prof[p] = NoProfile
            /\ ch[p].sent =>
                  /\ ch[p].timeUsed = pre[p].timeUsed
                  /\ ch[p].timeUsedCum = pre[p].timeUsedCum

\* A Collect of a stopped collector is about to return; the buffer still
\* holds a sample and the counters hold earlier ones.
C6_Witness ==
    \E p \in Procs :
        /\ StoppedScrape(p) /\ pc[p] = "Collect_unlock"
        /\ buffer # <<>> /\ DOMAIN timeUsedCum # {}

----
----
\* C8: the counters a Collect has when it leaves its sample loop are the
\* reference fold of the parsed samples: a sample with a stack and two
\* values adds values[1]/1,000,000 ms to the self time of the function of its
\* leaf and to the cumulative time of the function of each of its frames,
\* once per frame; any other sample adds nothing.
C8_FoldIsReference ==
    \A p \in Procs :
        (RunningScrape(p) /\ Aggregated(p)) =>
            /\ IsFold("self", timeUsed, pre[p].timeUsed, prof[p].Sample, locations[p])
            /\ IsFold("cum", timeUsedCum, pre[p].timeUsedCum, prof[p].Sample, locations[p])

\* A Collect has aggregated a recursive sample and a sample without stack.
C8_Witness ==
    \E p \in Procs :
        /\ RunningScrape(p) /\ pc[p] = "Collect_publish"
        /\ \E k \in 1..Len(prof[p].Sample) :
              /\ Len(prof[p].Sample[k].Location) = 2
              /\ prof[p].Sample[k].Location[1] = prof[p].Sample[k].Location[2]
        /\ \E k \in 1..Len(prof[p].Sample) : ~Valid(prof[p].Sample[k])
        /\ timeUsed = ("f" :> [ms |-> 300, ns |-> 0])
        /\ timeUsedCum = ("f" :> [ms |-> 600, ns |-> 0])

----
\* C9: mapLocations maps every location to the name of the first symbol, in
\* table order, with Addr <= Address <= Addr + Size, and to "" when there is
\* no such symbol.
RefMatches(addr, syms) ==
    {k \in 1..Len(syms) : syms[k].Addr <= addr /\ addr <= syms[k].Addr + syms[k].Size}

RefName(addr, syms) ==
    IF RefMatches(addr, syms) = {} THEN Unknown
    ELSE syms[CHOOSE k \in RefMatches(addr, syms) :
                 \A j \in RefMatches(addr, syms) : k <= j].Name

C9_ResolveFirstInclusive ==
    /\ DOMAIN resOut \subseteq {resLocs[i].ID : i \in 1..Len(resLocs)}
    /\ \A i \in 1..Len(resLocs) :
          Lookup(resOut, resLocs[i].ID) = RefName(resLocs[i].Address, symbols)

\* One location lies on the upper bound of the first symbol and inside the
\* second one too, another one lies in no symbol.
C9_Witness ==
    /\ Len(symbols) = 2 /\ Len(resLocs) = 2
    /\ symbols[1].Size > 0
    /\ resLocs[1].Address = symbols[1].Addr + symbols[1].Size
    /\ RefMatches(resLocs[1].Address, symbols) = {1, 2}
    /\ RefMatches(resLocs[2].Address, symbols) = {}
    /\ resOut = (1 :> "f")

----
\* C10: no step lowers or removes a time counter: every function name in
\* c.timeUsed or c.timeUsedCum stays in it, with a value at least as large.
C10_Monotonic ==
    [][/\ \A n \in DOMAIN timeUsed :
             n \in DOMAIN timeUsed' /\ Leq(timeUsed[n], timeUsed'[n])
       /\ \A n \in DOMAIN timeUsedCum :
             n \in DOMAIN timeUsedCum' /\ Leq(timeUsedCum[n], timeUsedCum'[n])]_vars

\* A counter has grown from 300 ms by another 1.5 ms.
C10_Witness ==
    /\ "f" \in DOMAIN timeUsed
    /\ timeUsed["f"] = [ms |-> 301, ns |-> 500000]

----
\* C11: every Collect publishes, whatever c.running is: when it releases the
\* lock it has sent one value per function name of c.timeUsed, one per
\* function name of c.timeUsedCum, and started and stopped, be they zero or
\* unchanged.
C11_AlwaysPublishes ==
    [][\A p \in Procs :
        (pre[p].op = "Collect" /\ mutex = p /\ mutex' # p) =>
            /\ ch[p].sent
            /\ ch[p].timeUsed = timeUsed
            /\ ch[p].timeUsedCum = timeUsedCum
            /\ ch[p].started = started
            /\ ch[p].stopped = stopped]_vars

\* The same for the Collects that return.
C11_PublishesOnReturn ==
    \A p \in Procs :
        pc[p] = "Collect_unlock" =>
            /\ ch[p].sent
            /\ ch[p].timeUsed = timeUsed
            /\ ch[p].timeUsedCum = timeUsedCum
            /\ ch[p].started = started
            /\ ch[p].stopped = stopped

----
\* C12: a decode failure is fatal for the scrape it happens in: the scrape
\* is a Running one that has drained the buffer, it stops there for good with
\* the lock released, both time counters are what they were when the scrape
\* began, and the scrape has sent nothing.
C12_DecodeFailureAborts ==
    [][\A p \in Procs :
        /\ (pc[p] # "panicked" /\ pc'[p] = "panicked") =>
              /\ RunningScrape(p) /\ pc[p] = "Collect_parse"
              /\ buffer = <<>> /\ rate' = 0
              /\ timeUsed' = pre[p].timeUsed
              /\ timeUsedCum' = pre[p].timeUsedCum
              /\ ~ch'[p].sent
              /\ mutex' = Free
        /\ pc[p] = "panicked" => pc'[p] = "panicked" /\ ~ch'[p].sent]_vars

\* A scrape that drained a sample has failed to decode it: the sample is gone
\* and no counter has a child.
C12_Witness ==
    \E p \in Procs :
        /\ pc[p] = "panicked" /\ ~ch[p].sent
        /\ produced > 0 /\ buffer = <<>> /\ rate = 0
        /\ timeUsed = <<>> /\ timeUsedCum = <<>>

----
\* C13: under fair scheduling every call that has taken the lock eventually
\* returns and releases it, and a Collect that began while c.running
\* eventually sets the profile rate back to cpuProfileRate.
C13_CompletesAndResumes ==
    \A p \in Procs :
        /\ InCS(p) ~> (~InCS(p) /\ mutex # p)
        /\ RunningScrape(p) ~> (rate = cpuProfileRate)

\* What holds instead: the call returns or panics, releasing the lock either
\* way, unless a panic has ended the process meanwhile; and the rate is set
\* back unless the decode failed.
C13_CompletesUnlessPanic ==
    \A p \in Procs :
        /\ InCS(p) ~> ((~InCS(p) /\ mutex # p) \/ aborted)
        /\ RunningScrape(p) ~>
              (rate = cpuProfileRate \/ \E q \in Procs : pc[q] = "panicked")

----
\* C14: a frame whose address is in no symbol range is counted under the
\* empty name: over the samples of a Collect that have a stack and two
\* values, the "" child of c.timeUsed grows by the milliseconds of every
\* sample whose leaf has such an address, and the "" child of c.timeUsedCum
\* by the milliseconds of the sample for every such frame of its stack; the
\* Collect gets through its sample loop with them.
Outside(addr) == RefMatches(addr, symbols) = {}

OutsideFrames(kind, s) ==
    IF ~Valid(s) THEN 0
    ELSE IF kind = "self"
         THEN (IF Outside(s.Location[1].Address) THEN 1 ELSE 0)
         ELSE Cardinality({j \in 1..Len(s.Location) : Outside(s.Location[j].Address)})

\* The nanoseconds the samples owe to the empty name.
RECURSIVE OutsideNs(_, _)
OutsideNs(kind, samples) ==
    IF samples = <<>> THEN 0
    ELSE LET s == Head(samples)
             w == OutsideFrames(kind, s)
         IN  (IF w = 0 THEN 0 ELSE w * s.Value[2]) + OutsideNs(kind, Tail(samples))

C14_UnknownBucket ==
    \A p \in Procs :
        (RunningScrape(p) /\ Aggregated(p)) =>
            LET S == prof[p].Sample
            IN  /\ Val(timeUsed, Unknown) =
                      AddMs(Val(pre[p].timeUsed, Unknown), ToMs(OutsideNs("self", S)))
                /\ Val(timeUsedCum, Unknown) =
                      AddMs(Val(pre[p].timeUsedCum, Unknown), ToMs(OutsideNs("cum", S)))
                /\ (\E k \in 1..Len(S) : OutsideFrames("self", S[k]) > 0)
                      => Unknown \in DOMAIN timeUsed
                /\ (\E k \in 1..Len(S) : OutsideFrames("cum", S[k]) > 0)
                      => Unknown \in DOMAIN timeUsedCum

\* A Collect has folded one sample, whose only frame is at address 4.
C14_Witness ==
    \E p \in Procs :
        /\ RunningScrape(p) /\ pc[p] = "Collect_publish"
        /\ Len(prof[p].Sample) = 1
        /\ Valid(prof[p].Sample[1])
        /\ prof[p].Sample[1].Location[1].Address = 4
        /\ Unknown \notin DOMAIN pre[p].timeUsed
        /\ timeUsed = (Unknown :> [ms |-> 1, ns |-> 500000])
        /\ timeUsedCum = (Unknown :> [ms |-> 1, ns |-> 500000])

----
\* C15: self time is conserved: when a Collect has left its sample loop (or
\* skipped it, the collector not running), the sum of c.timeUsed over all its
\* children, the "" child included, exceeds the sum it had when the Collect
\* began by the sum of Value[1] over exactly the samples of the Collect that
\* have a stack and at least 2 values.
RECURSIVE TotalNs(_)
TotalNs(vec) ==
    IF DOMAIN vec = {} THEN 0
    ELSE LET n == CHOOSE x \in DOMAIN vec : TRUE
         IN  vec[n].ms * nanoToMilliDivisor + vec[n].ns
             + TotalNs([m \in DOMAIN vec \ {n} |-> vec[m]])

RECURSIVE ValidNs(_)
ValidNs(samples) ==
    IF samples = <<>> THEN 0
    ELSE (IF Valid(Head(samples)) THEN Head(samples).Value[2] ELSE 0)
         + ValidNs(Tail(samples))

C15_SelfTimeConserved ==
    \A p \in Procs :
        (pre[p].op = "Collect" /\ Aggregated(p)) =>
            /\ TotalNs(timeUsed) =
                  TotalNs(pre[p].timeUsed) + ValidNs(prof[p].Sample)
            /\ ~pre[p].running => prof[p].Sample = <<>>

\* A Collect has folded a sample of an unknown leaf and a sample of two
\* frames: 1.5 ms each, in two children.
C15_Witness ==
    \E p \in Procs :
        /\ RunningScrape(p) /\ pc[p] = "Collect_publish"
        /\ pre[p].timeUsed = <<>>
        /\ Len(prof[p].Sample) = 2
        /\ \E k \in 1..2 : Len(prof[p].Sample[k].Location) = 2
        /\ DOMAIN timeUsed = {Unknown, "f"}
        /\ TotalNs(timeUsed) = 3000000

----
\* C16: pprof_cpu_started counts how often Start has been called and
\* pprof_cpu_stopped how often Stop has been called: whenever no call is in
\* progress, started is the number of Start calls made so far and stopped
\* the number of Stop calls made so far.
C16_CountsCalls ==
    mutex = Free =>
        /\ started = Cardinality(Calls("Start"))
        /\ stopped = Cardinality(Calls("Stop"))

----
\* C17: in a table whose symbols do not overlap (each occupies the addresses
\* from Addr up to, not including, Addr + Size), the symbols next to each
\* other included, the test of mapLocations accepts every location address
\* for at most one symbol, so that the first match is the only match.
NoOverlap(syms) ==
    /\ \A i \in 1..Len(syms) : syms[i].Size > 0
    /\ \A i, j \in 1..Len(syms) :
          i # j => \/ syms[i].Addr + syms[i].Size <= syms[j].Addr
                   \/ syms[j].Addr + syms[j].Size <= syms[i].Addr

C17_AtMostOneRange ==
    NoOverlap(symbols) =>
        \A i \in 1..Len(resLocs) :
            Cardinality({k \in 1..Len(symbols) :
                           InRange(resLocs[i].Address, symbols[k])}) <= 1

----
\* C18: a Collect leaves the lifecycle state alone: from the moment it takes
\* the lock to the moment it releases it, by return or by panic, c.running,
\* started and stopped are what they were when it took the lock, although it
\* sets the profile rate to 0 and back when c.running; and the Collect that
\* follows a single Start sends started = 1 and stopped = 0.
C18_ScrapeKeepsLifecycle ==
    [][\A p \in Procs :
        pre[p].op = "Collect" =>
            /\ running = pre[p].running /\ running' = pre[p].running
            /\ started = pre[p].started /\ started' = pre[p].started
            /\ stopped = pre[p].stopped /\ stopped' = pre[p].stopped
            /\ (ch'[p].sent /\ Ops = <<"Start">>) =>
                  ch'[p].started = 1 /\ ch'[p].stopped = 0]_vars

\* After one Start, a Collect has paused the sampling that was on, drained a
\* sample, sent its metrics and set the rate back.
C18_Witness ==
    \E p \in Procs :
        /\ RunningScrape(p) /\ pc[p] = "Collect_unlock"
        /\ Ops = <<"Start">>
        /\ pre[p].rate = cpuProfileRate /\ rate = cpuProfileRate
        /\ Len(prof[p].Sample) > 0
        /\ running /\ started = 1 /\ stopped = 0
        /\ ch[p].sent /\ ch[p].started = 1 /\ ch[p].stopped = 0

----
\* C19: whenever the lock is free, started - stopped is 0 or 1 and c.running
\* is true exactly when started = stopped + 1, false exactly when started =
\* stopped; the difference is 0 or 1 at every moment, and the calls that
\* changed c.running are alternately Starts and Stops, the first one a Start.
Transitions == SelectSeq(hist, LAMBDA h : h.moved)

----
\* Every function name of the self-time vector self is in the cumulative
\* vector cum, with a value at least as large.
SelfLeCum(self, cum) ==
    /\ DOMAIN self \subseteq DOMAIN cum
    /\ \A n \in DOMAIN self : Leq(self[n], Val(cum, n))

\* C20 as stated: in every reachable state, every function name of
\* c.timeUsed is in c.timeUsedCum and its self time is at most its
\* cumulative time.
C20_SelfLeCumEverywhere == SelfLeCum(timeUsed, timeUsedCum)

\* C20: the same in every state in which no Collect stands between its Add
\* to c.timeUsed for a sample and its Adds to c.timeUsedCum for that sample,
\* hence whenever the lock is free; and in the values every Collect sends.
C20_SelfLeCumBetweenSamples ==
    /\ (\A p \in Procs : pc[p] # "Collect_cum") => SelfLeCum(timeUsed, timeUsedCum)
    /\ mutex = Free => SelfLeCum(timeUsed, timeUsedCum)
    /\ \A p \in Procs : ch[p].sent => SelfLeCum(ch[p].timeUsed, ch[p].timeUsedCum)

\* With the lock free and the sampling on, f has less self time than
\* cumulative time, from a recursive sample a Collect has folded.
C20_Witness ==
    /\ \E p \in Procs : pre[p].op = "none" /\ pc[p] = "idle"
    /\ mutex = Free /\ rate = cpuProfileRate
    /\ DOMAIN timeUsed = {"f"} /\ DOMAIN timeUsedCum = {"f"}
    /\ timeUsed["f"] = [ms |-> 300, ns |-> 0]
    /\ timeUsedCum["f"] = [ms |-> 600, ns |-> 0]

====
